---------------------------- MODULE Spec2Model ----------------------------
(***************************************************************************)
(* The document-similarity map/reduce pipeline of src/mapreduce:           *)
(*   stage 1  inv-index-mapper.py    term-frequency mapper                 *)
(*   stage 2  inv-index-reducer.py   inverted-index reducer                *)
(*   stage 3  pairwise-mapper.py     pairwise-weight mapper                *)
(*   stage 4  pairwise-reducer.py    pairwise-similarity reducer           *)
(* each stage run on its own and the stages composed, and the k nearest    *)
(* neighbours classifier of src/classify/knn.py.                           *)
(*                                                                         *)
(* Conventions.                                                            *)
(*  - A Python string is a sequence of one-character strings, so that      *)
(*    split, rstrip and slicing are computed, not assumed.                 *)
(*  - A Python float is an exact reduced fraction [n, d] with d > 0.       *)
(*    Binary rounding is below the resolution of the model; math.log is    *)
(*    tabulated to three decimals (LnMilli).  Where a float travels as     *)
(*    text between two stages, the text keeps StrDecimals decimals.        *)
(*  - A Python 2 dict is a function; the order in which it is iterated     *)
(*    (items(), keys(), for .. in) is arbitrary and is therefore chosen    *)
(*    nondeterministically wherever the code iterates.                     *)
(*  - An uncaught exception ends the process: pc = "crashed".              *)
(***************************************************************************)
EXTENDS Integers, Sequences, FiniteSets, TLC

VARIABLES
  \* stage 1 (inv-index-mapper.py, main)
  pc1, nread1, line1, docid, document, frequencies, out1,
  \* stage 2 (inv-index-reducer.py, main); groups2 counts the groups begun
  DOCUMENT_SET_LENGTH, pc2, in2, pos2, current_word, fileDict, out2, groups2,
  \* stage 3 (pairwise-mapper.py, main); out3[i] holds the records printed
  \* for the i-th input line
  pc3, in3, pos3, worddict, pool, out3,
  \* stage 4 (pairwise-reducer.py, main); groups4 counts the groups begun
  pc4, in4, pos4, docset, doc1, doc2, totcount, out4, groups4,
  \* the classifier (knn.py): data is the module-level list, self_data and
  \* distancelist are the fields of the object, arg_v1, arg_k (v1, k) and
  \* klasses are the locals of classify, result is what it returned last,
  \* calls counts the calls
  pc5, data, self_data, distancelist, arg_v1, arg_k, klasses, result, calls

vars1 == <<pc1, nread1, line1, docid, document, frequencies, out1>>
vars2 == <<DOCUMENT_SET_LENGTH, pc2, in2, pos2, current_word, fileDict, out2,
           groups2>>
vars3 == <<pc3, in3, pos3, worddict, pool, out3>>
vars4 == <<pc4, in4, pos4, docset, doc1, doc2, totcount, out4, groups4>>
vars5 == <<pc5, data, self_data, distancelist, arg_v1, arg_k, klasses, result,
           calls>>
vars == <<vars1, vars2, vars3, vars4, vars5>>

-----------------------------------------------------------------------------
(* Bounds of the model *)

MaxLineLen == 6      \* characters of one stage-1 input line
MaxLines1 == 2       \* lines read by stage 1 in one run
MaxIn2 == 3          \* records in the input stream of stage 2
MaxIn3 == 2          \* lines in the input stream of stage 3
MaxIn4 == 3          \* records in the input stream of stage 4

-----------------------------------------------------------------------------
(* Floats as exact fractions *)

\* In gcd and Frac the arguments are bound to their values before they are
\* used (x \in {e}), so that each is evaluated once.
RECURSIVE gcd(_, _)
gcd(a, b) ==
  IF b = 0 THEN a ELSE CHOOSE g \in {gcd(x, y) : x \in {b}, y \in {a % b}} : TRUE

Abs(x) == IF x < 0 THEN -x ELSE x

\* the float n/d, d > 0
Frac(n, d) ==
  CHOOSE f \in {LET g == gcd(Abs(x), y) IN [n |-> x \div g, d |-> y \div g] :
                 x \in {n}, y \in {d}} : TRUE

Zero == Frac(0, 1)
FAdd(x, y) == Frac(x.n * y.d + y.n * x.d, x.d * y.d)
FMul(x, y) == Frac(x.n * y.n, x.d * y.d)
FLess(x, y) == x.n * y.d < y.n * x.d

-----------------------------------------------------------------------------
(* Strings *)

Space == " "
Bar == "|"

\* s.rstrip(): trailing whitespace removed
RECURSIVE rstrip(_)
rstrip(s) ==
  IF s # <<>> /\ s[Len(s)] = Space THEN rstrip(SubSeq(s, 1, Len(s) - 1)) ELSE s

\* s.split(sep) for a one-character separator: every occurrence separates,
\* the result always has at least one field
RECURSIVE split(_, _)
split(s, sep) ==
  IF \A i \in 1..Len(s) : s[i] # sep THEN <<s>>
  ELSE LET i == CHOOSE k \in 1..Len(s) :
                  s[k] = sep /\ \A j \in 1..(k - 1) : s[j] # sep
       IN <<SubSeq(s, 1, i - 1)>> \o split(SubSeq(s, i + 1, Len(s)), sep)

\* s.split(' ') in the place of s.split(): an empty string has one token
splitNoneMut(s) == split(s, Space)

\* s.split(None): the maximal runs of non-whitespace characters
RECURSIVE splitNone(_)
splitNone(s) ==
  IF s = <<>> THEN <<>>
  ELSE IF Head(s) = Space THEN splitNone(Tail(s))
  ELSE LET stops == {k \in 1..Len(s) : s[k] = Space}
           e == IF stops = {} THEN Len(s) + 1
                ELSE CHOOSE k \in stops : \A j \in stops : k <= j
       IN <<SubSeq(s, 1, e - 1)>> \o splitNone(SubSeq(s, e, Len(s)))

\* list.count(x)
count(seq, x) == Cardinality({i \in 1..Len(seq) : seq[i] = x})

-----------------------------------------------------------------------------
(* Stage 1: term-frequency mapper *)

Chars1 == {"a", "b", Space, Bar}

\* the lines stdin can deliver (without the newline)
Lines1 == UNION {[1..n -> Chars1] : n \in 0..MaxLineLen}

freq(word, doc) == count(splitNone(doc), word)

wordCount(doc) == Len(splitNone(doc))

\* freq divided by the number of different words
tfMut(word, doc) ==
  Frac(freq(word, doc),
       Cardinality({splitNone(doc)[i] : i \in 1..Len(splitNone(doc))}))

\* freq / wordCount; only called for a word of the document, so wordCount >= 1
tf(word, doc) == Frac(freq(word, doc), wordCount(doc))

\* lines 69-73: tally the words of the document into a dict
RECURSIVE Tally(_, _)
Tally(words, fr) ==
  IF words = <<>> THEN fr
  ELSE LET w == Head(words)
       IN Tally(Tail(words),
                IF w \in DOMAIN fr THEN [fr EXCEPT ![w] = @ + 1]
                ELSE (w :> 1) @@ fr)

EmptyDict == <<>>

Init1 ==
  /\ pc1 = "read"
  /\ nread1 = 0
  /\ line1 = <<>>
  /\ docid = <<>>
  /\ document = <<>>
  /\ frequencies = EmptyDict
  /\ out1 = <<>>

\* lines 62-73 on the line raw: it is stripped, split and tallied; a line
\* without '|' raises IndexError at line 63
ReadRaw1(raw) ==
  LET l == rstrip(raw)
      fields == split(l, Bar)
  IN /\ line1' = l
     /\ nread1' = nread1 + 1
     /\ UNCHANGED out1
     /\ IF Len(fields) < 2
        THEN /\ pc1' = "crashed"
             /\ docid' = fields[1]
             /\ UNCHANGED <<document, frequencies>>
        ELSE /\ docid' = fields[1]
             /\ document' = fields[2]
             /\ frequencies' = Tally(splitNone(fields[2]), EmptyDict)
             /\ pc1' = "print"

\* lines 60-73: the next line of stdin, any line, is read
ReadLine1 ==
  /\ pc1 = "read"
  /\ nread1 < MaxLines1
  /\ \E raw \in Lines1 : ReadRaw1(raw)

\* one iteration of a loop over the words of the document instead
PrintWord1Mut ==
  /\ pc1 = "print"
  /\ Len(out1) < Len(splitNone(document))
  /\ LET word == splitNone(document)[Len(out1) + 1]
     IN out1' = Append(out1, <<word, docid, tf(word, document)>>)
  /\ UNCHANGED <<pc1, nread1, line1, docid, document, frequencies>>

\* lines 76-77, one iteration: the next word of the dict, in the dict's order
PrintWord1 ==
  /\ pc1 = "print"
  /\ \E word \in DOMAIN frequencies \ {out1[i][1] : i \in 1..Len(out1)} :
       out1' = Append(out1, <<word, docid, tf(word, document)>>)
  /\ UNCHANGED <<pc1, nread1, line1, docid, document, frequencies>>

\* the loop of line 76 is exhausted: back to line 60.  The locals of the
\* finished iteration are dead (each is assigned before it is read again,
\* lines 62-65), and out1 holds the records of one iteration, so they are
\* cleared here.
EndPrint1 ==
  /\ pc1 = "print"
  /\ DOMAIN frequencies = {out1[i][1] : i \in 1..Len(out1)}
  /\ pc1' = "read"
  /\ line1' = <<>>
  /\ docid' = <<>>
  /\ document' = <<>>
  /\ frequencies' = EmptyDict
  /\ out1' = <<>>
  /\ UNCHANGED nread1

\* end of stdin
Eof1 ==
  /\ pc1 = "read"
  /\ pc1' = "done"
  /\ UNCHANGED <<nread1, line1, docid, document, frequencies, out1>>

Next1 ==
  \/ ReadLine1 /\ UNCHANGED <<vars2, vars3, vars4, vars5>>
  \/ PrintWord1 /\ UNCHANGED <<vars2, vars3, vars4, vars5>>
  \/ EndPrint1 /\ UNCHANGED <<vars2, vars3, vars4, vars5>>
  \/ Eof1 /\ UNCHANGED <<vars2, vars3, vars4, vars5>>

-----------------------------------------------------------------------------
(* Stage 2: inverted-index reducer *)

\* 1000 * ln(n), rounded, for the integers the model takes logarithms of
LnMilli(n) ==
  CASE n = 1 -> 0
    [] n = 2 -> 693
    [] n = 3 -> 1099
    [] n = 4 -> 1386
    [] n = 5 -> 1609
    [] n = 100 -> 4605

\* math.log raises ValueError unless its argument is positive
IdfDefined(docs_containing_term, C) == C > 0 /\ docs_containing_term > 0
\* the smoothed variant log(1 + N/m) in the place of log(N/m)
get_idfMut(docs_containing_term, C) ==
  Frac(LnMilli(C + docs_containing_term) - LnMilli(docs_containing_term),
       1000)

\* math.log(float(C) / float(docs_containing_term)), C = DOCUMENT_SET_LENGTH
get_idf(docs_containing_term, C) ==
  Frac(LnMilli(C) - LnMilli(docs_containing_term), 1000)

\* the orders in which a dict with key set S can be iterated
Orders(S) ==
  {o \in [1..Cardinality(S) -> S] : \A i, j \in DOMAIN o : o[i] = o[j] => i = j}

\* fd.items() in the order o: a list of (key, value) pairs, a copy
Items(fd, o) == [i \in DOMAIN o |-> <<o[i], fd[o[i]]>>]

\* the loop with the documents counted among the items still to process
RECURSIVE WeightLoopMut(_, _, _)
WeightLoopMut(fd, items, C) ==
  IF items = <<>> THEN fd
  ELSE LET item == Head(items)
           idf == get_idf(Len(items), C)
       IN WeightLoopMut([fd EXCEPT ![item[1]] = FMul(item[2], idf)],
                        Tail(items), C)

\* lines 52-58: the loop over the copied items, overwriting fd as it goes
RECURSIVE WeightLoop(_, _, _)
WeightLoop(fd, items, C) ==
  IF items = <<>> THEN fd
  ELSE LET item == Head(items)
           tfv == item[2]
           docs_containing_term == Cardinality(DOMAIN fd)
           idf == get_idf(docs_containing_term, C)
       IN WeightLoop([fd EXCEPT ![item[1]] = FMul(tfv, idf)], Tail(items), C)

Terms2 == {<<"a">>, <<"b">>}
Docs2 == {<<"x">>, <<"y">>, <<"z">>}
TFs2 == {Frac(1, 2), Frac(1, 1)}

\* an input line "term\tdocid\ttf", split into its three fields (line 18)
Records2 == Terms2 \X Docs2 \X TFs2

\* the values DOCUMENT_SET_LENGTH (line 8) is configured with
CorpusSizes == {-1, 0, 2, 100}

Init2 ==
  /\ DOCUMENT_SET_LENGTH \in CorpusSizes
  /\ in2 \in UNION {[1..n -> Records2] : n \in 0..MaxIn2}
  /\ pos2 = 1
  /\ pc2 = "outer"
  /\ current_word = <<>>
  /\ fileDict = EmptyDict
  /\ out2 = <<>>
  /\ groups2 = 0

\* the next group with the dict of the previous group kept
NextGroup2Mut ==
  /\ pc2 = "outer"
  /\ pos2 <= Len(in2)
  /\ current_word' = in2[pos2][1]
  /\ groups2' = groups2 + 1
  /\ pc2' = "inner"
  /\ UNCHANGED <<DOCUMENT_SET_LENGTH, in2, pos2, fileDict, out2>>

\* lines 43-44: groupby yields the next key; the dict is created empty
NextGroup2 ==
  /\ pc2 = "outer"
  /\ pos2 <= Len(in2)
  /\ current_word' = in2[pos2][1]
  /\ fileDict' = EmptyDict
  /\ groups2' = groups2 + 1
  /\ pc2' = "inner"
  /\ UNCHANGED <<DOCUMENT_SET_LENGTH, in2, pos2, out2>>

\* lines 48-49: the next record of the group
Accumulate2 ==
  /\ pc2 = "inner"
  /\ pos2 <= Len(in2)
  /\ in2[pos2][1] = current_word
  /\ LET fileName == in2[pos2][2]
         cnt == in2[pos2][3]
     IN fileDict' = (fileName :> cnt) @@ fileDict
  /\ pos2' = pos2 + 1
  /\ UNCHANGED <<DOCUMENT_SET_LENGTH, pc2, in2, current_word, out2, groups2>>

\* a group ends at a change of key only, not at the end of the input
GroupEnd2Mut == IF pos2 > Len(in2) THEN FALSE ELSE in2[pos2][1] # current_word

\* groupby ends a group at the end of the input or at a record with another key
GroupEnd2 == IF pos2 > Len(in2) THEN TRUE ELSE in2[pos2][1] # current_word

\* lines 52-61: the group is exhausted (key change or end of input); the
\* weights are computed and the posting list is printed.  get_idf raises
\* ValueError in the first iteration when the corpus size is not positive.
Flush2 ==
  /\ pc2 = "inner"
  /\ GroupEnd2
  /\ IF IdfDefined(Cardinality(DOMAIN fileDict), DOCUMENT_SET_LENGTH)
     THEN /\ \E o \in Orders(DOMAIN fileDict) :
               fileDict' = WeightLoop(fileDict, Items(fileDict, o),
                                      DOCUMENT_SET_LENGTH)
          /\ out2' = Append(out2, <<current_word, fileDict'>>)
          /\ pc2' = "outer"
     ELSE /\ pc2' = "crashed"
          /\ UNCHANGED <<fileDict, out2>>
  /\ UNCHANGED <<DOCUMENT_SET_LENGTH, in2, pos2, current_word, groups2>>

\* groupby is exhausted
Done2 ==
  /\ pc2 = "outer"
  /\ pos2 > Len(in2)
  /\ pc2' = "done"
  /\ UNCHANGED <<DOCUMENT_SET_LENGTH, in2, pos2, current_word, fileDict, out2,
                 groups2>>

Next2 ==
  \/ NextGroup2 /\ UNCHANGED <<vars1, vars3, vars4, vars5>>
  \/ Accumulate2 /\ UNCHANGED <<vars1, vars3, vars4, vars5>>
  \/ Flush2 /\ UNCHANGED <<vars1, vars3, vars4, vars5>>
  \/ Done2 /\ UNCHANGED <<vars1, vars3, vars4, vars5>>

\* stage 2 is not run
Off2 ==
  /\ DOCUMENT_SET_LENGTH = 100
  /\ in2 = <<>>
  /\ pos2 = 1
  /\ pc2 = "off"
  /\ current_word = <<>>
  /\ fileDict = EmptyDict
  /\ out2 = <<>>
  /\ groups2 = 0

-----------------------------------------------------------------------------
(* Stage 3: pairwise-weight mapper *)

Max(S) == CHOOSE x \in S : \A y \in S : y <= x

\* lines 29-38: the loop of the generator, from the index list ind on
\* (positions and indices count from 1 here, from 0 in the code)
RECURSIVE CombLoop(_, _, _)
CombLoop(pl, r, ind) ==
  LET n == Len(pl)
      movable == {i \in 1..r : ind[i] # i + n - r}
  IN IF movable = {} THEN <<>>
     ELSE LET i == Max(movable)
              ind2 == [j \in 1..r |->
                         IF j < i THEN ind[j] ELSE ind[i] + 1 + (j - i)]
          IN <<[k \in 1..r |-> pl[ind2[k]]]>> \o CombLoop(pl, r, ind2)

\* every ordered pair of different positions (itertools.permutations)
combinationsMut(pl, r) ==
  LET n == Len(pl)
      idx == [k \in 1..(n * n) |-> <<((k - 1) \div n) + 1, ((k - 1) % n) + 1>>]
      all == [k \in 1..(n * n) |-> <<pl[idx[k][1]], pl[idx[k][2]]>>]
  IN SelectSeq(all, LAMBDA c : c[1] # c[2])

\* lines 12-38: the tuples combinations(pool, r) yields, in order
combinations(pl, r) ==
  LET n == Len(pl)
      indices == [i \in 1..r |-> i]
  IN IF r > n THEN <<>>
     ELSE <<[k \in 1..r |-> pl[indices[k]]]>> \o CombLoop(pl, r, indices)

\* the product of the two weights
numberMut(wd, docid1, docid2) == FMul(wd[docid1], wd[docid2])

\* line 64: the sum of the two weights
number(wd, docid1, docid2) == FAdd(wd[docid1], wd[docid2])

\* line 68: the record printed for the tuple c
PairRecord(wd, c) == <<c[1] \o <<Bar>> \o c[2], number(wd, c[1], c[2])>>

\* lines 61-68: the records printed for a dict whose keys() come in order o
PairRecords(wd, o) ==
  LET cs == combinations(o, 2)
  IN [k \in 1..Len(cs) |-> PairRecord(wd, cs[k])]

Weights3 == {Frac(1, 2), Frac(1, 1)}

\* the dicts the second field of an input line can evaluate to
Dicts3 == UNION {[S -> Weights3] : S \in SUBSET Docs2}

\* an input line is modelled by its second field, the term is never read:
\* ok tells whether the field is there and evaluates, dict is its value
Malformed == [ok |-> FALSE, dict |-> EmptyDict]

Lines3 == {[ok |-> TRUE, dict |-> d] : d \in Dicts3} \cup {Malformed}

Init3 ==
  /\ in3 \in UNION {[1..n -> Lines3] : n \in 0..MaxIn3}
  /\ pos3 = 1
  /\ pc3 = "read"
  /\ worddict = EmptyDict
  /\ pool = <<>>
  /\ out3 = <<>>

\* lines 56-58 on a line that has no second field or whose second field
\* does not evaluate: IndexError or SyntaxError
BadLine3 ==
  /\ pc3 = "read"
  /\ pos3 <= Len(in3)
  /\ ~in3[pos3].ok
  /\ pos3' = pos3 + 1
  /\ pc3' = "crashed"
  /\ UNCHANGED <<in3, worddict, pool, out3>>

\* lines 56-68: one line is read, evaluated, and its pairs are printed
MapLine3 ==
  /\ pc3 = "read"
  /\ pos3 <= Len(in3)
  /\ in3[pos3].ok
  /\ worddict' = in3[pos3].dict
  /\ \E o \in Orders(DOMAIN in3[pos3].dict) :
       /\ pool' = o
       /\ out3' = Append(out3, PairRecords(in3[pos3].dict, o))
  /\ pos3' = pos3 + 1
  /\ UNCHANGED <<pc3, in3>>

\* end of stdin
Eof3 ==
  /\ pc3 = "read"
  /\ pos3 > Len(in3)
  /\ pc3' = "done"
  /\ UNCHANGED <<in3, pos3, worddict, pool, out3>>

Next3 ==
  \/ BadLine3 /\ UNCHANGED <<vars1, vars2, vars4, vars5>>
  \/ MapLine3 /\ UNCHANGED <<vars1, vars2, vars4, vars5>>
  \/ Eof3 /\ UNCHANGED <<vars1, vars2, vars4, vars5>>

\* stage 3 is not run
Off3 ==
  /\ in3 = <<>>
  /\ pos3 = 1
  /\ pc3 = "off"
  /\ worddict = EmptyDict
  /\ pool = <<>>
  /\ out3 = <<>>

-----------------------------------------------------------------------------
(* Stage 4: pairwise-similarity reducer *)

\* line 12
OUTPUT_THRESHOLD == Frac(1, 1)

\* lines 52-53: the number of leading characters of an id that are compared
IdPrefixLen == 8

\* s[:k]
Prefix(s, k) == SubSeq(s, 1, IF Len(s) < k THEN Len(s) ELSE k)

LongId1 == <<"x", "x", "x", "x", "x", "x", "x", "x", "1">>
LongId2 == <<"x", "x", "x", "x", "x", "x", "x", "x", "2">>

\* the first fields of the input lines: well-formed pair keys, a pair of an
\* id with itself, a pair of two ids that agree on their first 8 characters,
\* a key without '|' and a key with two '|'
Keys4 ==
  { <<"x", Bar, "y">>, <<"y", Bar, "x">>, <<"x", Bar, "x">>,
    LongId1 \o <<Bar>> \o LongId2,
    <<"x">>, <<"x", Bar, "y", Bar, "x">> }

Counts4 == {Frac(1, 2), Frac(1, 1)}

\* an input line "key\tcount", split into its two fields (line 19)
Records4 == Keys4 \X Counts4

Init4 ==
  /\ in4 \in UNION {[1..n -> Records4] : n \in 0..MaxIn4}
  /\ pos4 = 1
  /\ pc4 = "outer"
  /\ docset = <<>>
  /\ doc1 = <<>>
  /\ doc2 = <<>>
  /\ totcount = Zero
  /\ out4 = <<>>
  /\ groups4 = 0

\* lines 45-47 with the running total left as it is
NextGroup4Mut ==
  /\ pc4 = "outer"
  /\ pos4 <= Len(in4)
  /\ docset' = in4[pos4][1]
  /\ groups4' = groups4 + 1
  /\ LET halves == split(in4[pos4][1], Bar)
     IN IF Len(halves) = 2
        THEN /\ doc1' = halves[1]
             /\ doc2' = halves[2]
             /\ pc4' = "inner"
        ELSE /\ pc4' = "crashed"
             /\ UNCHANGED <<doc1, doc2>>
  /\ UNCHANGED <<in4, pos4, out4, totcount>>

\* lines 45-47: groupby yields the next key, the key is split (ValueError
\* unless it has exactly two halves) and the total is reset
NextGroup4 ==
  /\ pc4 = "outer"
  /\ pos4 <= Len(in4)
  /\ docset' = in4[pos4][1]
  /\ groups4' = groups4 + 1
  /\ LET halves == split(in4[pos4][1], Bar)
     IN IF Len(halves) = 2
        THEN /\ doc1' = halves[1]
             /\ doc2' = halves[2]
             /\ totcount' = Zero
             /\ pc4' = "inner"
        ELSE /\ pc4' = "crashed"
             /\ UNCHANGED <<doc1, doc2, totcount>>
  /\ UNCHANGED <<in4, pos4, out4>>

\* lines 48-49: the next record of the group
Accumulate4 ==
  /\ pc4 = "inner"
  /\ pos4 <= Len(in4)
  /\ in4[pos4][1] = docset
  /\ totcount' = FAdd(totcount, in4[pos4][2])
  /\ pos4' = pos4 + 1
  /\ UNCHANGED <<pc4, in4, docset, doc1, doc2, out4, groups4>>

\* groupby ends a group at the end of the input or at a record with another key
GroupEnd4 == IF pos4 > Len(in4) THEN TRUE ELSE in4[pos4][1] # docset

\* the condition of line 57 with the two ids compared whole
Passes4WholeMut(d1, d2, total) ==
  d1 # d2 /\ FLess(OUTPUT_THRESHOLD, total)

\* the condition of line 57 with the comparison written as >=
Passes4Mut(d1, d2, total) ==
  Prefix(d1, IdPrefixLen) # Prefix(d2, IdPrefixLen)
    /\ ~FLess(total, OUTPUT_THRESHOLD)

\* line 57
Passes4(d1, d2, total) ==
  Prefix(d1, IdPrefixLen) # Prefix(d2, IdPrefixLen)
    /\ FLess(OUTPUT_THRESHOLD, total)

\* lines 52-58: the group is exhausted; its record is printed if it passes
Flush4 ==
  /\ pc4 = "inner"
  /\ GroupEnd4
  /\ out4' = IF Passes4(doc1, doc2, totcount)
             THEN Append(out4, <<docset, totcount>>)
             ELSE out4
  /\ pc4' = "outer"
  /\ UNCHANGED <<in4, pos4, docset, doc1, doc2, totcount, groups4>>

\* groupby is exhausted
Done4 ==
  /\ pc4 = "outer"
  /\ pos4 > Len(in4)
  /\ pc4' = "done"
  /\ UNCHANGED <<in4, pos4, docset, doc1, doc2, totcount, out4, groups4>>

Next4 ==
  \/ NextGroup4 /\ UNCHANGED <<vars1, vars2, vars3, vars5>>
  \/ Accumulate4 /\ UNCHANGED <<vars1, vars2, vars3, vars5>>
  \/ Flush4 /\ UNCHANGED <<vars1, vars2, vars3, vars5>>
  \/ Done4 /\ UNCHANGED <<vars1, vars2, vars3, vars5>>

\* stage 4 is not run
Off4 ==
  /\ in4 = <<>>
  /\ pos4 = 1
  /\ pc4 = "off"
  /\ docset = <<>>
  /\ doc1 = <<>>
  /\ doc2 = <<>>
  /\ totcount = Zero
  /\ out4 = <<>>
  /\ groups4 = 0

-----------------------------------------------------------------------------
(* The k nearest neighbours classifier, src/classify/knn.py.  The model
   is the script as it is run: the module-level list data of line 89 is the
   list handed to the constructor, and euclidean is the function of
   src/similarity/similarity.py. *)

MaxData == 3         \* data points of the classifier
MaxK == 2            \* the parameter k of classify
MaxCalls == 2        \* calls of classify on one object

Classes5 == {"a", "b"}
Vectors5 == {<<0, 0>>, <<1, 0>>, <<0, 3>>}
Points5 == [class : Classes5, vector : Vectors5]
\* the vectors classify is called with; one of them has another length
Queries5 == Vectors5 \cup {<<1>>}

\* similarity.py lines 42-44: the sum of the squares of the differences
RECURSIVE sumsq(_, _)
sumsq(va, vb) ==
  IF va = <<>> THEN 0
  ELSE (Head(va) - Head(vb)) * (Head(va) - Head(vb))
         + sumsq(Tail(va), Tail(vb))

\* similarity.py line 45: the score 1 / (1 + sqrt(sum)), which is
\* irrational in general; a score is represented by its sum, and one score
\* is less than another when its sum is greater
euclidean(va, vb) == [sum |-> sumsq(va, vb)]
ScoreLess(x, y) == x.sum > y.sum

\* list.sort(key=lambda x: x[0], reverse=True): descending scores, entries
\* of equal score in the order they had (the sort is stable)
InsertDesc(x, s) ==
  LET n == Cardinality({i \in 1..Len(s) : ~ScoreLess(s[i][1], x[1])})
  IN SubSeq(s, 1, n) \o <<x>> \o SubSeq(s, n + 1, Len(s))

RECURSIVE sortDesc(_)
sortDesc(s) ==
  IF s = <<>> THEN <<>>
  ELSE InsertDesc(s[Len(s)], sortDesc(SubSeq(s, 1, Len(s) - 1)))

\* knn.py lines 78-81: the classes of the first n entries, counted
RECURSIVE TallyK(_, _)
TallyK(dl, n) ==
  IF n = 0 THEN EmptyDict
  ELSE LET kl == TallyK(dl, n - 1)
           klass == dl[n][2]
       IN IF klass \in DOMAIN kl
          THEN [kl EXCEPT ![klass] = @ + 1]
          ELSE (klass :> 1) @@ kl

\* lines 39-41 and 89-95
Init5 ==
  /\ pc5 = "idle"
  /\ self_data \in UNION {[1..n -> Points5] : n \in 0..MaxData}
  /\ data = self_data
  /\ distancelist = <<>>
  /\ arg_v1 = <<>>
  /\ arg_k = 0
  /\ klasses = EmptyDict
  /\ result = <<>>
  /\ calls = 0

\* the data points before the first whose vector has not the length of q
Comparable(q) ==
  {i \in 1..Len(self_data) :
     \A j \in 1..i : Len(self_data[j].vector) = Len(q)}

\* lines 75 and 49-52: classify is called with v1 and k and calls
\* _getdistances, whose loop appends one entry per data point to the list
\* the object has kept, and which sorts that list; euclidean raises
\* AssertionError on a vector of another length
getdistances ==
  /\ pc5 = "idle"
  /\ calls < MaxCalls
  /\ \E q \in Queries5, kk \in 0..MaxK :
       /\ arg_v1' = q
       /\ arg_k' = kk
       /\ LET n == Cardinality(Comparable(q))
              new == [i \in 1..n |->
                        <<euclidean(q, self_data[i].vector), data[i].class>>]
          IN IF n < Len(self_data)
             THEN /\ distancelist' = distancelist \o new
                  /\ pc5' = "crashed"
             ELSE /\ distancelist' = sortDesc(distancelist \o new)
                  /\ pc5' = "tally"
  /\ calls' = calls + 1
  /\ UNCHANGED <<data, self_data, klasses, result>>

\* lines 76-81: the classes of the first k entries are tallied; IndexError
\* at line 79 when the list has fewer than k entries
Tally5 ==
  /\ pc5 = "tally"
  /\ IF arg_k > Len(distancelist)
     THEN /\ klasses' = TallyK(distancelist, Len(distancelist))
          /\ pc5' = "crashed"
     ELSE /\ klasses' = TallyK(distancelist, arg_k)
          /\ pc5' = "return"
  /\ UNCHANGED <<data, self_data, distancelist, arg_v1, arg_k, result, calls>>

\* lines 83-86: the classes with the highest count are returned, in the
\* reverse of the order the dict klasses is iterated in
Return5 ==
  /\ pc5 = "return"
  /\ LET top == {c \in DOMAIN klasses :
                   \A c2 \in DOMAIN klasses : klasses[c2] <= klasses[c]}
     IN \E finalcounts \in Orders(top) : result' = finalcounts
  /\ pc5' = "idle"
  /\ UNCHANGED <<data, self_data, distancelist, arg_v1, arg_k, klasses, calls>>

Next5 ==
  \/ getdistances /\ UNCHANGED <<vars1, vars2, vars3, vars4>>
  \/ Tally5 /\ UNCHANGED <<vars1, vars2, vars3, vars4>>
  \/ Return5 /\ UNCHANGED <<vars1, vars2, vars3, vars4>>

\* no classifier is built
Off5 ==
  /\ pc5 = "off"
  /\ self_data = <<>>
  /\ data = <<>>
  /\ distancelist = <<>>
  /\ arg_v1 = <<>>
  /\ arg_k = 0
  /\ klasses = EmptyDict
  /\ result = <<>>
  /\ calls = 0

-----------------------------------------------------------------------------
(* The stages, each run on its own *)

\* stage 1 is not run
Off1 ==
  /\ pc1 = "off"
  /\ nread1 = 0
  /\ line1 = <<>>
  /\ docid = <<>>
  /\ document = <<>>
  /\ frequencies = EmptyDict
  /\ out1 = <<>>

Start1 == Init1 /\ Off2 /\ Off3 /\ Off4 /\ Off5
Start2 == Off1 /\ Init2 /\ Off3 /\ Off4 /\ Off5
Start3 == Off1 /\ Off2 /\ Init3 /\ Off4 /\ Off5
Start4 == Off1 /\ Off2 /\ Off3 /\ Init4 /\ Off5
Start5 == Off1 /\ Off2 /\ Off3 /\ Off4 /\ Init5

Spec1 == Start1 /\ [][Next1]_vars
Spec2 == Start2 /\ [][Next2]_vars
Spec3 == Start3 /\ [][Next3]_vars
Spec4 == Start4 /\ [][Next4]_vars
Spec5 == Start5 /\ [][Next5]_vars

\* any one of the four stages is run, on its own input
StartStages == Start1 \/ Start2 \/ Start3 \/ Start4
NextStages == Next1 \/ Next2 \/ Next3 \/ Next4
SpecStages == StartStages /\ [][NextStages]_vars

\* either of the two reducers (stage 2, stage 4) is run, on its own input
StartReducers == Start2 \/ Start4
NextReducers == Next2 \/ Next4
SpecReducers == StartReducers /\ [][NextReducers]_vars

\* a reducer is a running process: while it can take a step it takes one
SpecReducersFair == SpecReducers /\ WF_vars(NextReducers)

-----------------------------------------------------------------------------
(* The stages composed.  Between two stages the records travel as text and
   map/reduce hands a reducer its input grouped by key.  print with %s
   writes a float with 12 significant digits; the model's integers cannot
   hold that many, so the text keeps StrDecimals decimals.  str(dict)
   writes the floats of a dict with repr, which float reads back exactly. *)

StrDecimals == 3

RECURSIVE Pow10(_)
Pow10(k) == IF k = 0 THEN 1 ELSE 10 * Pow10(k - 1)

\* float('%s' % f) for f >= 0: f rounded to the digits the text keeps
StrFloat(f) ==
  LET S == Pow10(StrDecimals)
  IN Frac((2 * f.n * S + f.d) \div (2 * f.d), S)

\* the orders in which map/reduce may hand over the records seq: every
\* order that keeps the records of equal key (first field) together, the
\* key-sorted order being one of them; last is the index of the record
\* handed over before, 0 at the start
RECURSIVE GroupedOrders(_, _, _)
GroupedOrders(seq, rest, last) ==
  IF rest = {} THEN {<<>>}
  ELSE LET same == IF last = 0 THEN {}
                   ELSE {i \in rest : seq[i][1] = seq[last][1]}
           cands == IF same # {} THEN same ELSE rest
       IN UNION {{<<seq[i]>> \o t : t \in GroupedOrders(seq, rest \ {i}, i)} :
                 i \in cands}

RECURSIVE Flatten(_)
Flatten(ss) == IF ss = <<>> THEN <<>> ELSE Head(ss) \o Flatten(Tail(ss))

\* the corpus of two documents
DocId1 == <<"d", "o", "c", "1">>
DocId2 == <<"d", "o", "c", "2">>
The == <<"t", "h", "e">>
Cat == <<"c", "a", "t">>
Sat == <<"s", "a", "t">>
Ran == <<"r", "a", "n">>
TheCatSat == DocId1 \o <<Bar>> \o The \o <<Space>> \o Cat \o <<Space>> \o Sat
TheCatRan == DocId2 \o <<Bar>> \o The \o <<Space>> \o Cat \o <<Space>> \o Ran
Corpus == <<TheCatSat, TheCatRan>>

\* stages 1 to 4 on the corpus, with the corpus size set to its length
InitCorpus ==
  /\ Init1
  /\ DOCUMENT_SET_LENGTH = Len(Corpus)
  /\ in2 = <<>>
  /\ pos2 = 1
  /\ pc2 = "off"
  /\ current_word = <<>>
  /\ fileDict = EmptyDict
  /\ out2 = <<>>
  /\ groups2 = 0
  /\ Off3
  /\ Off4
  /\ Off5

\* stage 1 reads the next document of the corpus
ReadCorpus1 ==
  /\ pc1 = "read"
  /\ pc2 = "off"
  /\ nread1 < Len(Corpus)
  /\ ReadRaw1(Corpus[nread1 + 1])
  /\ UNCHANGED <<vars2, vars3, vars4, vars5>>

PrintCorpus1 ==
  /\ pc2 = "off"
  /\ PrintWord1
  /\ UNCHANGED <<vars2, vars3, vars4, vars5>>

\* the records printed for a document are collected as stage 2's input
Collect1 ==
  /\ pc2 = "off"
  /\ EndPrint1
  /\ in2' = in2 \o [i \in 1..Len(out1) |->
                      <<out1[i][1], out1[i][2], StrFloat(out1[i][3])>>]
  /\ UNCHANGED <<DOCUMENT_SET_LENGTH, pos2, pc2, current_word, fileDict,
                 out2, groups2>>
  /\ UNCHANGED <<vars3, vars4, vars5>>

EofCorpus1 ==
  /\ pc2 = "off"
  /\ nread1 = Len(Corpus)
  /\ Eof1
  /\ UNCHANGED <<vars2, vars3, vars4, vars5>>

\* stage 1 has ended: its records are grouped by term and stage 2 starts
Shuffle12 ==
  /\ pc1 = "done"
  /\ pc2 = "off"
  /\ in2' \in GroupedOrders(in2, 1..Len(in2), 0)
  /\ pc2' = "outer"
  /\ UNCHANGED <<DOCUMENT_SET_LENGTH, pos2, current_word, fileDict, out2,
                 groups2>>
  /\ UNCHANGED <<vars1, vars3, vars4, vars5>>

\* stage 2 has ended: the posting lists it printed are stage 3's input
Feed23 ==
  /\ pc2 = "done"
  /\ pc3 = "off"
  /\ in3' = [i \in 1..Len(out2) |-> [ok |-> TRUE, dict |-> out2[i][2]]]
  /\ pc3' = "read"
  /\ UNCHANGED <<pos3, worddict, pool, out3>>
  /\ UNCHANGED <<vars1, vars2, vars4, vars5>>

\* stage 3 has ended: its records are grouped by pair key and stage 4
\* starts
Shuffle34 ==
  /\ pc3 = "done"
  /\ pc4 = "off"
  /\ LET recs == Flatten(out3)
         text == [i \in 1..Len(recs) |-> <<recs[i][1], StrFloat(recs[i][2])>>]
     IN in4' \in GroupedOrders(text, 1..Len(text), 0)
  /\ pc4' = "outer"
  /\ UNCHANGED <<pos4, docset, doc1, doc2, totcount, out4, groups4>>
  /\ UNCHANGED <<vars1, vars2, vars3, vars5>>

\* stages 3 and 4 on the posting lists of three documents x, y, z: one
\* term shared by exactly two of them with weight 5.0 each, and up to
\* MaxSingles posting lists of a term that one document has alone
SharedWeight == Frac(5, 1)
MaxSingles == 2
SharedLines ==
  {[ok |-> TRUE, dict |-> [d \in S |-> SharedWeight]] :
     S \in {T \in SUBSET Docs2 : Cardinality(T) = 2}}
SingleLines ==
  {[ok |-> TRUE, dict |-> [d \in {c} |-> w]] :
     c \in Docs2, w \in Weights3 \cup {SharedWeight}}
InsertAt(seq, k, x) ==
  SubSeq(seq, 1, k - 1) \o <<x>> \o SubSeq(seq, k, Len(seq))

InitShared ==
  /\ Off1
  /\ Off2
  /\ \E ss \in UNION {[1..n -> SingleLines] : n \in 0..MaxSingles},
        sh \in SharedLines :
       \E k \in 1..(Len(ss) + 1) : in3 = InsertAt(ss, k, sh)
  /\ pos3 = 1
  /\ pc3 = "read"
  /\ worddict = EmptyDict
  /\ pool = <<>>
  /\ out3 = <<>>
  /\ Off4
  /\ Off5

\* stage 2 prints well-formed lines only, so stage 3 never meets the
\* malformed line of BadLine3 here
NextPipeline ==
  \/ ReadCorpus1
  \/ PrintCorpus1
  \/ Collect1
  \/ EofCorpus1
  \/ Shuffle12
  \/ Next2
  \/ Feed23
  \/ MapLine3 /\ UNCHANGED <<vars1, vars2, vars4, vars5>>
  \/ Eof3 /\ UNCHANGED <<vars1, vars2, vars4, vars5>>
  \/ Shuffle34
  \/ Next4

StartPipeline == InitCorpus \/ InitShared
SpecPipeline == StartPipeline /\ [][NextPipeline]_vars

-----------------------------------------------------------------------------
(* Stage 1: what the claims speak of, stated without the mapper's operators *)

\* the maximal runs of non-whitespace characters of s, as index intervals
TokenSpans(s) ==
  {sp \in (1..Len(s)) \X (1..Len(s)) :
     /\ sp[1] <= sp[2]
     /\ \A k \in sp[1]..sp[2] : s[k] # Space
     /\ (sp[1] = 1 \/ s[sp[1] - 1] = Space)
     /\ (sp[2] = Len(s) \/ s[sp[2] + 1] = Space)}

NTokens(s) == Cardinality(TokenSpans(s))

Occurrences(T, s) ==
  Cardinality({sp \in TokenSpans(s) : SubSeq(s, sp[1], sp[2]) = T})

DistinctTokens(s) == {SubSeq(s, sp[1], sp[2]) : sp \in TokenSpans(s)}

Bars(l) == {k \in 1..Len(l) : l[k] = Bar}

FirstBar(l) ==
  CHOOSE k \in 1..Len(l) : l[k] = Bar /\ \A j \in 1..(k - 1) : l[j] # Bar

BeforeFirstBar(l) == SubSeq(l, 1, FirstBar(l) - 1)

AfterFirstBar(l) == SubSeq(l, FirstBar(l) + 1, Len(l))

Terms1 == {out1[i][1] : i \in 1..Len(out1)}

C3_TextAfterFirstBar ==
  pc1 = "print" => document = AfterFirstBar(line1)

-----------------------------------------------------------------------------
(* Stages 2 and 4: the maximal contiguous runs of equal keys of an input *)

RunStarts(inp) == {i \in 1..Len(inp) : i = 1 \/ inp[i - 1][1] # inp[i][1]}

NRuns(inp) == Cardinality(RunStarts(inp))

\* the first index of the j-th run
RunLo(inp, j) ==
  CHOOSE s \in RunStarts(inp) :
    Cardinality({t \in RunStarts(inp) : t < s}) = j - 1

\* the last index of the j-th run
RunHi(inp, j) == IF j = NRuns(inp) THEN Len(inp) ELSE RunLo(inp, j + 1) - 1

Run(inp, j) == RunLo(inp, j)..RunHi(inp, j)

RunKey(inp, j) == inp[RunLo(inp, j)][1]

\* the document ids of the j-th run of the stage-2 input
RunDocs2(j) == {in2[i][2] : i \in Run(in2, j)}

\* the term frequency the run gives for document d: that of d's last triple
RunTf2(j, d) ==
  LET last == CHOOSE i \in Run(in2, j) :
                /\ in2[i][2] = d
                /\ \A k \in Run(in2, j) : in2[k][2] = d => k <= i
  IN in2[last][3]

\* C4: the posting lists stage 2 has written are, in order, those of the
\* first maximal contiguous runs of equal terms of its input: one record per
\* run, carrying the run's term and a mapping whose key set is exactly the
\* set of document ids of the run; when the stage ends normally every run
\* has its record.
C4_OnePostingListPerRun ==
  /\ Len(out2) <= NRuns(in2)
  /\ \A j \in 1..Len(out2) :
       /\ out2[j][1] = RunKey(in2, j)
       /\ DOMAIN out2[j][2] = RunDocs2(j)
  /\ pc2 = "done" => Len(out2) = NRuns(in2)

\* two runs, the first of them with two documents, both written
C4_Witness ==
  /\ pc2 = "done"
  /\ NRuns(in2) = 2
  /\ Len(out2) = 2
  /\ Cardinality(RunDocs2(1)) = 2

\* C5: in every posting list stage 2 has written, the weight of each
\* document is its term frequency times idf(C, m) = ln(C/m), C the corpus
\* size and m the number of distinct document ids of the run, the same m for
\* every document of the run.
C5_WeightIsTfTimesIdf ==
  \A j \in 1..Len(out2) :
    LET m == Cardinality(RunDocs2(j))
        lnCm == Frac(LnMilli(DOCUMENT_SET_LENGTH) - LnMilli(m), 1000)
    IN \A d \in RunDocs2(j) :
         out2[j][2][d] = FMul(RunTf2(j, d), lnCm)

\* three documents with different term frequencies in one run
C5_Witness ==
  /\ pc2 = "done"
  /\ DOCUMENT_SET_LENGTH = 100
  /\ Len(out2) = 1
  /\ Cardinality(RunDocs2(1)) = 3
  /\ \E d, e \in RunDocs2(1) : RunTf2(1, d) # RunTf2(1, e)

\* C6 (as claimed): in every posting list stage 2 writes, the number m of
\* documents of the term satisfies 1 <= m <= corpus size and every weight
\* is >= 0.
C6_WeightsNonNegative ==
  \A j \in 1..Len(out2) :
    LET m == Cardinality(DOMAIN out2[j][2])
    IN /\ 1 <= m
       /\ m <= DOCUMENT_SET_LENGTH
       /\ \A d \in DOMAIN out2[j][2] : out2[j][2][d].n >= 0

-----------------------------------------------------------------------------
(* Stage 3: what the claims speak of *)

\* the two document ids of a pair key "id1|id2"
Left(key) == BeforeFirstBar(key)
Right(key) == AfterFirstBar(key)
PairOf(rec) == {Left(rec[1]), Right(rec[1])}

\* C7: for every posting list stage 3 has processed, with n distinct
\* document ids, it has written exactly n(n-1)/2 records, one for each
\* unordered pair of different ids of the list: no pair twice, no id paired
\* with itself; a list of 0 or 1 ids yields no record and no error (the
\* stage fails only on a line that cannot be evaluated).
C7_EveryUnorderedPairOnce ==
  /\ \A i \in 1..Len(out3) :
       \* ids: the two ids of every record written for line i
       \A ids \in {[k \in 1..Len(out3[i]) |->
                     <<Left(out3[i][k][1]), Right(out3[i][k][1])>>]} :
         \A pairs \in {{{ids[k][1], ids[k][2]} : k \in 1..Len(ids)}} :
           LET D == DOMAIN in3[i].dict
               n == Cardinality(D)
           IN /\ 2 * Len(ids) = n * (n - 1)
              /\ \A k \in 1..Len(ids) :
                   /\ ids[k][1] \in D
                   /\ ids[k][2] \in D
                   /\ ids[k][1] # ids[k][2]
              /\ Cardinality(pairs) = Len(ids)
              /\ \A a, b \in D : a # b => {a, b} \in pairs
  /\ pc3 = "crashed" => ~in3[pos3 - 1].ok
  /\ pc3 = "done" => Len(out3) = Len(in3)

\* a list of three ids with its three pairs, and a list of one id with none
C7_Witness ==
  /\ pc3 = "done"
  /\ \E i, j \in 1..Len(out3) :
       /\ Cardinality(DOMAIN in3[i].dict) = 3
       /\ Len(out3[i]) = 3
       /\ Cardinality(DOMAIN in3[j].dict) = 1
       /\ out3[j] = <<>>

C9_CanonicalPairKeys ==
  /\ \A i \in 1..Len(out3) :
       \A o \in Orders(DOMAIN in3[i].dict) :
         {PairRecords(in3[i].dict, o)[k] :
            k \in 1..Len(PairRecords(in3[i].dict, o))}
           = {out3[i][k] : k \in 1..Len(out3[i])}
  /\ \A i, j \in 1..Len(out3) :
       \A k \in 1..Len(out3[i]) :
         \A l \in 1..Len(out3[j]) :
           PairOf(out3[i][k]) = PairOf(out3[j][l])
             => out3[i][k][1] = out3[j][l][1]

-----------------------------------------------------------------------------
(* Stage 4: what the claims speak of *)

\* the sum of the contribution values of the records lo..hi of the input
RECURSIVE SumRange4(_, _)
SumRange4(lo, hi) ==
  IF lo > hi THEN Zero ELSE FAdd(in4[lo][2], SumRange4(lo + 1, hi))

\* for every run of the input, its key and the sum of its values
RunTotals4 ==
  [j \in 1..NRuns(in4) |->
     <<RunKey(in4, j), SumRange4(RunLo(in4, j), RunHi(in4, j))>>]

\* a is b with some elements left out
RECURSIVE IsSubseq(_, _)
IsSubseq(a, b) ==
  IF a = <<>> THEN TRUE
  ELSE IF b = <<>> THEN FALSE
  ELSE IF Head(a) = Head(b) THEN IsSubseq(Tail(a), Tail(b))
  ELSE IsSubseq(a, Tail(b))

\* the runs stage 4 has evaluated for output
Flushed4 == IF pc4 \in {"inner", "crashed"} THEN groups4 - 1 ELSE groups4

\* C10: the records stage 4 has written are, in input order, records of
\* different maximal contiguous runs of equal pair keys among the runs it
\* has finished, each carrying its run's key and the sum of all contribution
\* values of that run and of no other record; while a run is being read the
\* running total is the sum of the values of that run read so far.
C10_RunTotals ==
  /\ Flushed4 <= NRuns(in4)
  /\ IsSubseq(out4, SubSeq(RunTotals4, 1, Flushed4))
  /\ pc4 = "inner" =>
       totcount = SumRange4(RunLo(in4, groups4), pos4 - 1)

\* a run of two records is written with its sum after an earlier run was not
C10_Witness ==
  /\ pc4 = "done"
  /\ Len(in4) = 3
  /\ NRuns(in4) = 2
  /\ RunLo(in4, 2) = 2
  /\ out4 = << <<RunKey(in4, 2), Frac(3, 2)>> >>

-----------------------------------------------------------------------------
(* Stage 4: what is never written *)

\* the canonical form of an id: its first 8 characters, or all of it when
\* it is shorter
CanonicalId(id) ==
  [i \in 1..(IF Len(id) < IdPrefixLen THEN Len(id) ELSE IdPrefixLen) |-> id[i]]

\* C11: stage 4 never writes a record whose two ids have the same canonical
\* form, and never one whose score is less than or equal to the threshold
\* 1.0; in particular a run that sums to exactly the threshold is not
\* written.
C11_NeverSelfPairNorLowScore ==
  /\ \A i \in 1..Len(out4) :
       /\ CanonicalId(Left(out4[i][1])) # CanonicalId(Right(out4[i][1]))
       /\ FLess(OUTPUT_THRESHOLD, out4[i][2])
  /\ \A j \in 1..(IF Flushed4 <= NRuns(in4) THEN Flushed4 ELSE 0) :
       RunTotals4[j][2] = OUTPUT_THRESHOLD
         => \A i \in 1..Len(out4) : out4[i] # RunTotals4[j]

\* a run of two different ids that sums to exactly 1.0 was passed over,
\* and the run after it, which sums to 3/2, was written
C11_Witness ==
  /\ pc4 = "done"
  /\ NRuns(in4) = 2
  /\ RunTotals4[1][2] = OUTPUT_THRESHOLD
  /\ Left(RunTotals4[1][1]) # Right(RunTotals4[1][1])
  /\ Cardinality(Bars(RunTotals4[1][1])) = 1
  /\ RunTotals4[2][2] = Frac(3, 2)
  /\ out4 = << RunTotals4[2] >>

-----------------------------------------------------------------------------
(* Malformed records *)

\* C12: a malformed record (a stage 1 line without '|', a stage 3 line
\* whose mapping cannot be deserialized, a stage 4 key that does not split
\* into exactly two halves) is skipped and the stage goes on with the
\* records after it: no stage is ever ended by such a record.
C12_MalformedSkipped ==
  /\ pc1 # "crashed"
  /\ pc3 # "crashed"
  /\ pc4 # "crashed"

-----------------------------------------------------------------------------
(* Stage 1: documents without tokens *)

\* the line has a '|' and nothing but whitespace after the first one
ZeroTokenLine(l) == Bars(l) # {} /\ NTokens(AfterFirstBar(l)) = 0

\* C13: a document whose text after the '|' is empty or whitespace only is
\* skipped: reading it yields an empty tally and no triple, the step after
\* it is the return to reading the next line with nothing written, and no
\* triple is ever computed for a document of zero tokens (tf is never
\* evaluated with a token count of 0).
C13_ZeroTokenSkipped ==
  [][ /\ (pc1 = "read" /\ ZeroTokenLine(line1'))
           => (pc1' = "print" /\ frequencies' = EmptyDict /\ out1' = <<>>)
      /\ (pc1 = "print" /\ ZeroTokenLine(line1))
           => (pc1' = "read" /\ out1' = <<>>)
      /\ (out1' # out1 /\ out1' # <<>>) => NTokens(document) >= 1
    ]_vars

\* the second line read is a document without tokens, and nothing is
\* written for it
C13_Witness ==
  /\ pc1 = "print"
  /\ nread1 = 2
  /\ ZeroTokenLine(line1)
  /\ docid # <<>>
  /\ frequencies = EmptyDict
  /\ out1 = <<>>

-----------------------------------------------------------------------------
(* Stage 2: the corpus size as configuration *)

\* C14: with a corpus size of 0 or less stage 2 fails at startup: it never
\* begins a group (no input record is read), writes no posting list, and
\* does not end normally, not even on an empty input.
C14_BadCorpusSizeFailsAtStartup ==
  DOCUMENT_SET_LENGTH <= 0 =>
    /\ groups2 = 0
    /\ pos2 = 1
    /\ out2 = <<>>
    /\ pc2 # "done"

-----------------------------------------------------------------------------
(* The four stages on the corpus "the cat sat", "the cat ran" *)

\* C15: with the corpus size 2 and the records grouped by key between the
\* stages, the terms both documents have ("the", "cat") get the weight 0
\* for both, the terms one document has alone ("sat", "ran") get a positive
\* weight and produce no pair, every contribution to the pair of doc1 and
\* doc2 is 0, so is the total stage 4 accumulates, and stage 4 writes no
\* record; no stage fails.
C15_SharedTermsCancel ==
  pc1 # "off" =>
    /\ "crashed" \notin {pc1, pc2, pc3, pc4}
    /\ \A j \in 1..Len(out2) :
         /\ out2[j][1] \in {The, Cat} =>
              out2[j][2] = [d \in {DocId1, DocId2} |-> Zero]
         /\ out2[j][1] = Sat =>
              DOMAIN out2[j][2] = {DocId1} /\ FLess(Zero, out2[j][2][DocId1])
         /\ out2[j][1] = Ran =>
              DOMAIN out2[j][2] = {DocId2} /\ FLess(Zero, out2[j][2][DocId2])
    /\ pc2 = "done" =>
         {out2[j][1] : j \in 1..Len(out2)} = {The, Cat, Sat, Ran}
           /\ Len(out2) = 4
    /\ \A i \in 1..Len(out3) :
         Cardinality(DOMAIN in3[i].dict) = 1 => out3[i] = <<>>
    /\ \A i \in 1..Len(in4) :
         PairOf(in4[i]) = {DocId1, DocId2} /\ in4[i][2] = Zero
    /\ pc4 \notin {"off", "outer"} \/ groups4 > 0 => Len(in4) = 2
    /\ totcount = Zero
    /\ out4 = <<>>

\* all four stages have run to their end on the corpus
C15_Witness ==
  /\ pc1 = "done"
  /\ pc2 = "done"
  /\ pc3 = "done"
  /\ pc4 = "done"
  /\ Len(in2) = 6
  /\ Len(out2) = 4
  /\ Len(in4) = 2
  /\ groups4 >= 1
  /\ out4 = <<>>

-----------------------------------------------------------------------------
(* Stages 3 and 4 on one term shared by two of three documents *)

\* the input lines whose posting list has two documents
SharedAt == {i \in 1..Len(in3) : Cardinality(DOMAIN in3[i].dict) = 2}

-----------------------------------------------------------------------------
(* The classifier: what a call tallies *)

\* the squared Euclidean distance of data point i from the vector q
SqDist(q, i) ==
  LET v == self_data[i].vector
  IN (q[1] - v[1]) * (q[1] - v[1]) + (q[2] - v[2]) * (q[2] - v[2])

\* the sets of n data points nearest to q: no point outside is nearer than
\* a point inside
NearestSets(q, n) ==
  {N \in SUBSET (1..Len(self_data)) :
     /\ Cardinality(N) = n
     /\ \A i \in N : \A j \in (1..Len(self_data)) \ N :
          SqDist(q, i) <= SqDist(q, j)}

\* how often each class occurs among the data points N
ClassCounts(N) ==
  [c \in {self_data[i].class : i \in N} |->
     Cardinality({i \in N : self_data[i].class = c})]

\* C17: on every call of classify, a call after earlier calls on the same
\* object included, with k not above the number of data points, the
\* classes tallied are those of k data points nearest to the v1 of that
\* call, and the classes returned are those with the highest tally.
C17_TalliesKNearest ==
  arg_k <= Len(self_data) =>
    /\ pc5 = "return" =>
         \E N \in NearestSets(arg_v1, arg_k) : klasses = ClassCounts(N)
    /\ (pc5 = "idle" /\ calls > 0) =>
         /\ \E N \in NearestSets(arg_v1, arg_k) : klasses = ClassCounts(N)
         /\ {result[i] : i \in 1..Len(result)} =
              {c \in DOMAIN klasses :
                 \A c2 \in DOMAIN klasses : klasses[c2] <= klasses[c]}

\* the same holds of the first call on an object
FirstCallTalliesKNearest == calls <= 1 => C17_TalliesKNearest

-----------------------------------------------------------------------------
(* The two reducers: what the accumulator holds *)

\* the records of the current run of inp that lie before pos
ReadOfRun(inp, g, pos) == RunLo(inp, g)..(pos - 1)

\* the value document d has in the records idx of the stage-2 input: that
\* of d's last record among them
LastTf2(idx, d) ==
  LET last == CHOOSE i \in idx :
                in2[i][2] = d /\ \A i2 \in idx : in2[i2][2] = d => i2 <= i
  IN in2[last][3]

\* whether stage 4 writes a record for the j-th run of its input
Emits4(j) ==
  /\ CanonicalId(Left(RunTotals4[j][1])) # CanonicalId(Right(RunTotals4[j][1]))
  /\ FLess(OUTPUT_THRESHOLD, RunTotals4[j][2])

\* the indices, among the first n runs of the stage-4 input, of those a
\* record is written for
Emitted4(n) == {j \in 1..n : Emits4(j)}

\* C18: in both reducers the accumulator (fileDict, totcount) holds, while a
\* group is read, exactly what the records read so far of the current
\* maximal contiguous run give (nothing at the run's first record: it is
\* reset at every key change), the reading never goes past the run, and
\* the output of every earlier run is already written; between two groups
\* the stage-2 dict holds the documents of the run just written and no
\* other.
C18_AccumulatorIsCurrentGroup ==
  /\ pc2 = "inner" =>
       /\ groups2 <= NRuns(in2)
       /\ pos2 \in RunLo(in2, groups2)..(RunHi(in2, groups2) + 1)
       /\ current_word = RunKey(in2, groups2)
       /\ DOMAIN fileDict = {in2[i][2] : i \in ReadOfRun(in2, groups2, pos2)}
       /\ \A d \in DOMAIN fileDict :
            fileDict[d] = LastTf2(ReadOfRun(in2, groups2, pos2), d)
       /\ Len(out2) = groups2 - 1
  /\ (pc2 = "outer" /\ groups2 > 0) =>
       /\ Len(out2) = groups2
       /\ pos2 = RunHi(in2, groups2) + 1
       /\ DOMAIN fileDict = RunDocs2(groups2)
  /\ (pc2 = "outer" /\ groups2 = 0) => fileDict = EmptyDict
  /\ pc4 = "inner" =>
       /\ groups4 <= NRuns(in4)
       /\ pos4 \in RunLo(in4, groups4)..(RunHi(in4, groups4) + 1)
       /\ docset = RunKey(in4, groups4)
       /\ totcount = SumRange4(RunLo(in4, groups4), pos4 - 1)
       /\ Len(out4) = Cardinality(Emitted4(groups4 - 1))
  /\ (pc4 = "outer" /\ groups4 > 0) =>
       /\ pos4 = RunHi(in4, groups4) + 1
       /\ totcount = RunTotals4[groups4][2]
       /\ Len(out4) = Cardinality(Emitted4(groups4))

\* stage 2 has read the first record of its second group: the dict, which
\* held the two documents of the first group, holds that record only, and
\* the first group's posting list is written
C18_Witness ==
  /\ pc2 = "inner"
  /\ groups2 = 2
  /\ Cardinality(RunDocs2(1)) = 2
  /\ pos2 = RunLo(in2, 2) + 1
  /\ Cardinality(DOMAIN fileDict) = 1
  /\ Len(out2) = 1

-----------------------------------------------------------------------------
(* The two reducers on input whose equal keys are not contiguous *)

\* the positions of inp whose key differs from the key before
KeyChanges(inp) == {i \in 2..Len(inp) : inp[i][1] # inp[i - 1][1]}

GroupsExpected(inp) ==
  IF inp = <<>> THEN 0 ELSE Cardinality(KeyChanges(inp)) + 1

\* C20: when equal keys are not contiguous in the input nothing is merged
\* across the runs.  A reducer that has ended has evaluated one group per
\* key change plus one (none on empty input); stage 2 has written one
\* posting list per maximal contiguous run, in order, whose documents are
\* those of the run alone and whose weights use the number m of documents
\* of the run alone; stage 4 has written, in order, a record exactly for
\* the runs whose own sum is above the threshold and whose ids differ, with
\* the run's own sum.
C20_NothingMergedAcrossRuns ==
  /\ pc2 = "done" =>
       /\ groups2 = GroupsExpected(in2)
       /\ Len(out2) = groups2
       /\ \A j \in 1..Len(out2) :
            /\ out2[j][1] = RunKey(in2, j)
            /\ DOMAIN out2[j][2] = RunDocs2(j)
            /\ \A d \in RunDocs2(j) :
                 out2[j][2][d] =
                   FMul(LastTf2(Run(in2, j), d),
                        Frac(LnMilli(DOCUMENT_SET_LENGTH)
                               - LnMilli(Cardinality(RunDocs2(j))), 1000))
  /\ pc4 = "done" =>
       /\ groups4 = GroupsExpected(in4)
       /\ Len(out4) = Cardinality(Emitted4(groups4))
       /\ \A j \in Emitted4(groups4) :
            out4[Cardinality({x \in Emitted4(groups4) : x <= j})]
              = RunTotals4[j]

\* stage 4 has ended on three runs of which the first and the third have
\* the same key and sum to 1.0 each: together they would pass the
\* threshold, but no record is written for either
C20_Witness ==
  /\ pc4 = "done"
  /\ groups4 = 3
  /\ RunKey(in4, 1) = RunKey(in4, 3)
  /\ Left(RunKey(in4, 1)) # Right(RunKey(in4, 1))
  /\ RunTotals4[1][2] = Frac(1, 1)
  /\ RunTotals4[3][2] = Frac(1, 1)
  /\ out4 = <<>>

-----------------------------------------------------------------------------
(* The two reducers: every group is flushed *)

\* the stage-2 run starts with a usable corpus size
WellFormed2 == pc2 = "outer" /\ DOCUMENT_SET_LENGTH > 0

\* the stage-4 run starts on records whose keys all have exactly one '|'
WellFormed4 ==
  pc4 = "outer" /\ \A i \in 1..Len(in4) : Cardinality(Bars(in4[i][1])) = 1

\* the reducer has ended with every run of its input begun and flushed
AllFlushed2 ==
  pc2 = "done" /\ groups2 = NRuns(in2) /\ Len(out2) = NRuns(in2)
AllFlushed4 ==
  /\ pc4 = "done"
  /\ groups4 = NRuns(in4)
  /\ Len(out4) = Cardinality(Emitted4(NRuns(in4)))

\* how the groups follow each other in one step of a reducer whose program
\* counter goes from pc to pcn: a group is begun at the first record of the
\* run after the last one begun, it is flushed when all the records of its
\* run are read and none of the next, and the reducer ends only between two
\* groups with all runs begun
GroupSteps(pc, pcn, inp, pos, groups, groupsn) ==
  /\ (pc = "outer" /\ pcn = "inner") =>
       groupsn = groups + 1 /\ pos = RunLo(inp, groupsn)
  /\ (pc = "inner" /\ pcn = "outer") =>
       groupsn = groups /\ pos = RunHi(inp, groups) + 1
  /\ (pc # "done" /\ pcn = "done") =>
       pc = "outer" /\ groups = NRuns(inp) /\ pos = Len(inp) + 1

\* C19: in both reducers, on a well-formed input, every maximal contiguous
\* run is flushed exactly once and in input order (groups are begun one run
\* after the other, each is flushed at its last record, and stage 2 writes
\* one posting list at each flush), and the reducer that was started
\* eventually ends with every run flushed, the last one at the end of the
\* input: nothing is left accumulated and not evaluated.
C19_EveryGroupFlushed ==
  /\ [][ /\ GroupSteps(pc2, pc2', in2, pos2, groups2, groups2')
         /\ GroupSteps(pc4, pc4', in4, pos4, groups4, groups4')
         /\ (pc2 = "inner" /\ pc2' = "outer") =>
              \E pl \in {out2'[Len(out2')]} :
                out2' = Append(out2, pl) /\ pl[1] = RunKey(in2, groups2)
       ]_vars
  /\ (WellFormed2 \/ WellFormed4) => <>(AllFlushed2 \/ AllFlushed4)

\* stage 2, with a usable corpus size, has ended after three runs, each
\* begun, flushed and written
C19_Witness ==
  /\ pc2 = "done"
  /\ DOCUMENT_SET_LENGTH > 0
  /\ NRuns(in2) = 3
  /\ groups2 = 3
  /\ Len(out2) = 3

-----------------------------------------------------------------------------
(* Stage 4: how the two ids of a pair are compared *)

\* two ids that differ and agree on their first 8 characters
SharePrefix(a, b) ==
  /\ a # b
  /\ Len(a) >= IdPrefixLen
  /\ Len(b) >= IdPrefixLen
  /\ \A i \in 1..IdPrefixLen : a[i] = b[i]

\* whether the record of the j-th run of the stage-4 input is in the output
Written4(j) == \E i \in 1..Len(out4) : out4[i] = RunTotals4[j]

\* C21: for every run stage 4 has evaluated, if its two ids differ and
\* agree on their first 8 characters, no record is written for it, whatever
\* its total; if both ids are shorter than 8 characters, a record is written
\* exactly when the ids, compared whole, differ and the total exceeds the
\* threshold.
C21_ComparesFirstEight ==
  \A j \in 1..(IF Flushed4 <= NRuns(in4) THEN Flushed4 ELSE 0) :
    \A a \in {Left(RunTotals4[j][1])}, b \in {Right(RunTotals4[j][1])} :
      /\ SharePrefix(a, b) => ~Written4(j)
      /\ (Len(a) < IdPrefixLen /\ Len(b) < IdPrefixLen) =>
           (Written4(j) <=> (a # b /\ FLess(OUTPUT_THRESHOLD, RunTotals4[j][2])))

\* a run of two 9-character ids that differ in the ninth character only
\* summed to 3/2, above the threshold, and nothing was written
C21_Witness ==
  /\ pc4 = "done"
  /\ NRuns(in4) = 1
  /\ SharePrefix(Left(RunTotals4[1][1]), Right(RunTotals4[1][1]))
  /\ RunTotals4[1][2] = Frac(3, 2)
  /\ out4 = <<>>

=============================================================================
